---- MODULE Spec2Model ----
(***************************************************************************)
(* The two notebooks of the finance workshop.                              *)
(*                                                                         *)
(*   Autogen_intro.ipynb   a four-agent RoundRobinGroupChat `team` that    *)
(*                         stops on MaxMessageTermination(6);              *)
(*   the finance demo      the metrics tools get_latest_metrics and        *)
(*                         get_all_metrics, and the two-agent              *)
(*                         `executor_chat` that stops on                   *)
(*                         TextMentionTermination('APPROVE')               *)
(*                           | MaxMessageTermination(12).                  *)
(*                                                                         *)
(* The notebooks only configure the group chat; what a run of it does is   *)
(* read off the runs the notebooks record in their output cells.           *)
(***************************************************************************)
EXTENDS Naturals, Integers, Sequences, FiniteSets, TLC

VARIABLES
    participants,     \* the ordered agent list handed to RoundRobinGroupChat
    termination,      \* the termination_condition handed to RoundRobinGroupChat
    messages,         \* the transcript of the run (TaskResult.messages)
    message_count,    \* the counter owned by MaxMessageTermination
    next_speaker,     \* 0-based index of the agent whose turn is next
    pc,               \* "idle" (constructed), "running", "done"
    stop_reason,      \* the conditions that fired when the run stopped
    invoked,          \* the names of the agents invoked, in order
    active,           \* the agents asked to speak that have not replied yet
    stage,            \* where answer(q) stands; "none" outside of it
    question,         \* q, the argument of answer
    plan,             \* the Planner's last message
    data,             \* the content of the worker's last TextMessage
    fin_task,         \* the task handed to Financial
    started,          \* the runs answer(q) has started, in order
    METRICS,          \* the table loaded from metrics.json
    symbol,           \* the argument of the last tool call
    scope,            \* which tool was called: "latest", "all", "none"
    result            \* the string the last tool call returned

schedVars == <<participants, termination, messages, message_count,
               next_speaker, pc, stop_reason, invoked, active>>
pipeVars == <<stage, question, plan, data, fin_task, started>>
toolVars == <<METRICS, symbol, scope, result>>
vars == <<participants, termination, messages, message_count, next_speaker,
          pc, stop_reason, invoked, active, stage, question, plan, data,
          fin_task, started, METRICS, symbol, scope, result>>

(***************************************************************************)
(* Bounds of the model.                                                    *)
(***************************************************************************)
\* largest threshold of the MaxMessageTermination of a generic team
MaxThreshold == 4
\* longest participant list of a generic team
MaxParticipants == 2
\* most date keys stored for one symbol
MaxDates == 2

(***************************************************************************)
(* Text.  A string is a sequence of characters.                            *)
(***************************************************************************)
\* the marker of TextMentionTermination('APPROVE')
APPROVE == <<"A", "P", "P", "R", "O", "V", "E">>

\* Python's `sub in text` on strings
TextInEq(sub, text) == text = sub
TextIn(sub, text) ==
    \E i \in 1..(Len(text) + 1) :
        /\ i + Len(sub) - 1 <= Len(text)
        /\ SubSeq(text, i, i + Len(sub) - 1) = sub

\* What a model completion can say: the worker's "<json> APPROVE", a reply
\* that holds the marker inside a longer word, and a reply in lower case.
Replies ==
    { <<"{", "}", " ">> \o APPROVE,
      <<"D", "I", "S">> \o APPROVE \o <<"D">>,
      <<"a", "p", "p", "r", "o", "v", "e">> }

\* What a tool of the intro notebook returns, as the summary message shows it
ToolOutput == <<"1", "8", "0", ".", "1", "5">>

(***************************************************************************)
(* Agents and teams.                                                       *)
(***************************************************************************)
Agent(name, tools, reflect) ==
    [name |-> name, tools |-> tools, reflect_on_tool_use |-> reflect]

\* make_agent: every agent of the intro notebook has the two tools
make_agent(name) == Agent(name, TRUE, FALSE)

ExecutorWorker == Agent("ExecutorWorker", TRUE, TRUE)
Critic == Agent("Critic", FALSE, FALSE)

MaxMessageTermination(n) == [text |-> FALSE, max_messages |-> n]
TextMentionOrMaxMessage(n) == [text |-> TRUE, max_messages |-> n]

RoundRobinGroupChat(ps, cond) == [participants |-> ps, termination |-> cond]

team ==
    RoundRobinGroupChat(
        << make_agent("PriceWatcher"), make_agent("NewsSummarizer"),
           make_agent("RiskOfficer"), make_agent("TraderBot") >>,
        MaxMessageTermination(6))

executor_chat ==
    RoundRobinGroupChat(<<ExecutorWorker, Critic>>, TextMentionOrMaxMessage(12))

\* Teams of the same two kinds with other thresholds and shorter lists
GenericTeams ==
    { RoundRobinGroupChat(SubSeq(ps, 1, IF p <= Len(ps) THEN p ELSE Len(ps)), cond) :
        ps \in { team.participants, executor_chat.participants },
        p \in 1..MaxParticipants,
        cond \in { MaxMessageTermination(n) : n \in 1..MaxThreshold }
                 \cup { TextMentionOrMaxMessage(n) : n \in 1..MaxThreshold } }

Teams == { team, executor_chat } \cup GenericTeams

(***************************************************************************)
(* Messages.                                                               *)
(***************************************************************************)
Message(source, type, content) ==
    [source |-> source, type |-> type, content |-> content]

\* chat messages, as opposed to the tool-call events an agent also emits
IsChatMessage(m) == m.type \in {"TextMessage", "ToolCallSummaryMessage"}

RECURSIVE CountChat(_)
CountChat(ms) ==
    IF ms = <<>> THEN 0
    ELSE (IF IsChatMessage(Head(ms)) THEN 1 ELSE 0) + CountChat(Tail(ms))

\* What one turn of an agent adds to the transcript: with a tool call, the
\* request and execution events and then the reply (a TextMessage when the
\* agent reflects on the tool use, else the tool's output as a summary);
\* without one, a TextMessage.
AgentResponse(a, use_tool, reply) ==
    IF use_tool
    THEN << Message(a.name, "ToolCallRequestEvent", <<>>),
            Message(a.name, "ToolCallExecutionEvent", <<>>),
            IF a.reflect_on_tool_use
            THEN Message(a.name, "TextMessage", reply)
            ELSE Message(a.name, "ToolCallSummaryMessage", ToolOutput) >>
    ELSE << Message(a.name, "TextMessage", reply) >>

(***************************************************************************)
(* Termination conditions, applied to the messages a step added.           *)
(***************************************************************************)
\* MaxMessageTermination: the counter after seeing delta
CountAllEntries(count, delta) == count + Len(delta)
MaxMessageCount(count, delta) == count + CountChat(delta)

\* TextMentionTermination('APPROVE'): a chat message of delta mentions it
TextMentionEq(delta) ==
    \E i \in 1..Len(delta) :
        IsChatMessage(delta[i]) /\ TextInEq(APPROVE, delta[i].content)
TextMention(delta) ==
    \E i \in 1..Len(delta) :
        IsChatMessage(delta[i]) /\ TextIn(APPROVE, delta[i].content)

\* a | b: the conditions that fire on delta
FiredAnd(cond, count, delta) ==
    IF cond.text
    THEN IF TextMention(delta) /\ MaxMessageCount(count, delta) >= cond.max_messages
         THEN {"content-match", "count-bound"} ELSE {}
    ELSE IF MaxMessageCount(count, delta) >= cond.max_messages
         THEN {"count-bound"} ELSE {}
FiredFirst(cond, count, delta) ==
    IF cond.text /\ TextMention(delta) THEN {"content-match"}
    ELSE IF MaxMessageCount(count, delta) >= cond.max_messages
         THEN {"count-bound"} ELSE {}
Fired(cond, count, delta) ==
    (IF cond.text /\ TextMention(delta) THEN {"content-match"} ELSE {})
    \cup (IF MaxMessageCount(count, delta) >= cond.max_messages
          THEN {"count-bound"} ELSE {})

\* round-robin: the index of the speaker after index i of n
NextSpeakerStuck(i, n) == IF i + 1 < n THEN i + 1 ELSE i
NextSpeaker(i, n) == (i + 1) % n

(***************************************************************************)
(* The run of a team.                                                      *)
(***************************************************************************)
\* the thread after the messages of a step are added to it
Prepend(thread, delta) == delta \o thread
AppendAll(thread, delta) == thread \o delta

\* whom the group chat asks to speak after a step: nobody once a condition
\* has fired, else the one agent whose turn it is
RequestAll(fired, speaker) ==
    IF fired # {} THEN {}
    ELSE { participants[i].name : i \in 1..Len(participants) }
Request(fired, speaker) == IF fired # {} THEN {} ELSE {speaker}

\* the step shared by the start of the run and by every turn: the messages
\* are added, the termination condition sees them, and unless it fires the
\* agent at index nxt is asked to speak
Apply(delta, nxt) ==
    /\ messages' = AppendAll(messages, delta)
    /\ active' = Request(Fired(termination, message_count, delta),
                         participants[nxt + 1].name)
    /\ message_count' = MaxMessageCount(message_count, delta)
    /\ stop_reason' = Fired(termination, message_count, delta)
    /\ pc' = IF Fired(termination, message_count, delta) # {}
             THEN "done" ELSE "running"

\* team.run_stream(task=...): the task is the first message, from "user",
\* and the termination condition sees it before any agent speaks
run_stream(task) ==
    /\ pc = "idle"
    /\ Apply(<< Message("user", "TextMessage", task) >>, next_speaker)
    /\ UNCHANGED <<participants, termination, next_speaker, invoked, toolVars>>

\* one turn: the next agent in the list replies, its messages are appended,
\* and the termination condition sees them
Turn(use_tool, reply) ==
    /\ pc = "running"
    /\ LET a == participants[next_speaker + 1] IN
        /\ a.name \in active
        /\ use_tool => a.tools
        /\ Apply(AgentResponse(a, use_tool, reply),
                 NextSpeaker(next_speaker, Len(participants)))
        /\ invoked' = Append(invoked, a.name)
    /\ next_speaker' = NextSpeaker(next_speaker, Len(participants))
    /\ UNCHANGED <<participants, termination, toolVars>>

(***************************************************************************)
(* Properties of the run of a team.                                        *)
(***************************************************************************)
\* the chat messages of the transcript, in order (the seed is the first)
Chat == SelectSeq(messages, IsChatMessage)

HasMarker(m) == IsChatMessage(m) /\ TextIn(APPROVE, m.content)

CountOnly == ~termination.text

\* C1 as stated: a run whose only condition is a message-count bound N stops
\* with exactly N messages in the transcript beyond the seed.
C1_SeedNotCounted ==
    (pc = "done" /\ CountOnly) =>
        Len(Chat) - 1 = termination.max_messages

\* C1 amended: a run whose only condition is a message-count bound N stops
\* with exactly N chat messages in the transcript, the seed included (N - 1
\* beyond the seed); tool-call events are not counted, and the run does not
\* stop while the transcript holds fewer than N chat messages.
C1_SeedCounted ==
    CountOnly =>
        /\ pc = "done" =>
            /\ Len(Chat) = termination.max_messages
            /\ Len(invoked) = termination.max_messages - 1
        /\ pc = "running" => Len(Chat) < termination.max_messages

\* the recorded run of `team`: six chat messages with the seed, and the
\* events of two tool-using turns between them
C1_Witness ==
    /\ pc = "done"
    /\ participants = team.participants
    /\ termination = MaxMessageTermination(6)
    /\ Len(Chat) = 6
    /\ Len(messages) = 10

\* C2: with a content-match condition for "APPROVE", a chat message that
\* contains "APPROVE" is the last entry of the transcript and has stopped
\* the run, so no agent is invoked after it: every invocation has
\* contributed exactly one chat message before or at it.
C2_StopsAtFirstApprove ==
    termination.text =>
        /\ \A i \in 1..Len(messages) :
            HasMarker(messages[i]) =>
                /\ i = Len(messages)
                /\ pc = "done"
                /\ "content-match" \in stop_reason
        /\ pc # "idle" => Len(invoked) = Len(Chat) - 1

\* the recorded run of `executor_chat`: the worker's first reply ends in
\* APPROVE and the Critic, next in the round, is never invoked
C2_Witness ==
    /\ pc = "done"
    /\ participants = executor_chat.participants
    /\ termination = TextMentionOrMaxMessage(12)
    /\ invoked = <<"ExecutorWorker">>
    /\ Len(messages) = 4
    /\ messages[4].content = <<"{", "}", " ">> \o APPROVE

\* least position of the transcript at which P holds, Len + 1 if none
FirstIndex(P(_)) ==
    LET hits == { i \in 1..Len(messages) : P(i) } IN
    IF hits = {} THEN Len(messages) + 1
    ELSE CHOOSE i \in hits : \A j \in hits : i <= j

CountReached(i) ==
    CountChat(SubSeq(messages, 1, i)) >= termination.max_messages
ApproveAt(i) == HasMarker(messages[i])

Min(a, b) == IF a <= b THEN a ELSE b

\* C3: under count-bound(N) OR content-match("APPROVE") the run stops at
\* the minimum of the position at which the message count reaches N and the
\* position of the first message containing "APPROVE": a finished run's
\* transcript ends exactly there, and a run still going has reached neither.
C3_StopsAtMinimum ==
    (termination.text /\ pc # "idle") =>
        LET stop == Min(FirstIndex(CountReached), FirstIndex(ApproveAt)) IN
        /\ pc = "done" => Len(messages) = stop
        /\ pc = "running" => stop = Len(messages) + 1

\* executor_chat running to its count bound with no APPROVE on the way,
\* the twelfth message holding the marker in neither case
C3_Witness ==
    /\ pc = "done"
    /\ termination = TextMentionOrMaxMessage(12)
    /\ participants = executor_chat.participants
    /\ FirstIndex(ApproveAt) = Len(messages) + 1
    /\ FirstIndex(CountReached) = Len(messages)
    /\ Len(Chat) = 12

\* C4: the k-th chat message after the seed comes from the participant at
\* position ((k - 1) mod P) of the list, and the agents are invoked in that
\* order.
C4_RoundRobinOrder ==
    LET P == Len(participants) IN
    /\ \A k \in 1..(Len(Chat) - 1) :
        Chat[k + 1].source = participants[((k - 1) % P) + 1].name
    /\ \A k \in 1..Len(invoked) :
        invoked[k] = participants[((k - 1) % P) + 1].name

\* the recorded run of `team`: after the four agents the first speaks again
C4_Witness ==
    /\ pc = "done"
    /\ participants = team.participants
    /\ Len(Chat) = 6
    /\ Chat[5].source = "TraderBot"
    /\ Chat[6].source = "PriceWatcher"

ConditionAt(i) ==
    CountReached(i) \/ (termination.text /\ ApproveAt(i))

\* C12: the scheduler is strictly sequential.  At most one agent has been
\* asked to speak and has not replied; while the run goes on it is the agent
\* whose turn it is, and when it is asked every earlier invocation has
\* resolved with its whole reply in the transcript (which ends with that
\* reply's chat message) and the termination condition has seen every
\* message so far without firing, in the middle of a round as at its end.
C12_StrictlySequential ==
    /\ Cardinality(active) <= 1
    /\ pc # "running" => active = {}
    /\ pc = "running" =>
        /\ active = { participants[next_speaker + 1].name }
        /\ Len(invoked) = Len(Chat) - 1
        /\ IsChatMessage(messages[Len(messages)])
        /\ FirstIndex(ConditionAt) = Len(messages) + 1

\* the recorded run of `team` in the middle of its first round: PriceWatcher
\* has replied after a tool call and NewsSummarizer alone is asked to speak
C12_Witness ==
    /\ pc = "running"
    /\ participants = team.participants
    /\ invoked = <<"PriceWatcher">>
    /\ Len(messages) = 4
    /\ active = {"NewsSummarizer"}

IsPrefix(a, b) ==
    /\ Len(a) <= Len(b)
    /\ \A i \in 1..Len(a) : a[i] = b[i]

\* C13: the transcript is append-only.  Its first entry is the seed task, a
\* message from "user"; every step leaves the entries it had in place, at
\* the same positions, and only adds after them; and it grows only in the
\* steps of the scheduler, when the run starts and when the agent asked to
\* speak replies, by messages of that agent.
C13_AppendOnly ==
    /\ [](messages # <<>> =>
            /\ messages[1].source = "user"
            /\ messages[1].type = "TextMessage")
    /\ [][ /\ IsPrefix(messages, messages')
           /\ messages' # messages =>
                \/ pc = "idle" /\ Len(messages') = 1
                \/ /\ pc = "running"
                   /\ \A i \in (Len(messages) + 1)..Len(messages') :
                        {messages'[i].source} = active ]_vars

\* a transcript that has grown past the seed by a reply with tool events
C13_Witness ==
    /\ pc = "running"
    /\ Len(messages) = 5
    /\ messages[1].source = "user"
    /\ messages[2].type = "ToolCallRequestEvent"
    /\ messages[5].type = "TextMessage"

(***************************************************************************)
(* The metrics tools.                                                      *)
(***************************************************************************)
\* the ticker whitelist
SYMBOLS == <<"TSLA.US", "AMZN.US", "AAPL.US">>

InList(x, xs) == \E i \in 1..Len(xs) : xs[i] = x

\* the symbols a tool call can name: the whitelist and one outside it
Tickers == { SYMBOLS[i] : i \in 1..Len(SYMBOLS) } \cup {"MSFT.US"}

\* code points of the characters of a date key "YYYY-MM-DD"
Ord(c) ==
    CASE c = "-" -> 45
      [] c = "0" -> 48 [] c = "1" -> 49 [] c = "2" -> 50 [] c = "3" -> 51
      [] c = "4" -> 52 [] c = "5" -> 53 [] c = "6" -> 54 [] c = "7" -> 55
      [] c = "8" -> 56 [] c = "9" -> 57

\* Python's a < b on strings: by code point, a proper prefix being smaller
RECURSIVE StrLess(_, _)
StrLess(a, b) ==
    IF b = <<>> THEN FALSE
    ELSE IF a = <<>> THEN TRUE
    ELSE IF Ord(Head(a)) # Ord(Head(b)) THEN Ord(Head(a)) < Ord(Head(b))
    ELSE StrLess(Tail(a), Tail(b))

\* quarter ends, as the date keys of metrics.json
Q4_2024 == <<"2", "0", "2", "4", "-", "1", "2", "-", "3", "1">>
Q1_2025 == <<"2", "0", "2", "5", "-", "0", "3", "-", "3", "1">>
Q2_2025 == <<"2", "0", "2", "5", "-", "0", "6", "-", "3", "0">>
DateKeys == <<Q1_2025, Q4_2024, Q2_2025>>

\* the metric mapping stored for a symbol at a date: one ratio, different
\* for every symbol and date
MetricsOf(s, d) ==
    LET si == CHOOSE i \in 1..4 :
                  <<"TSLA.US", "AMZN.US", "AAPL.US", "MSFT.US">>[i] = s
        di == CHOOSE i \in 1..Len(DateKeys) : DateKeys[i] = d
    IN  [current_ratio |-> 10 * si + di]

\* a dict keeps its keys in insertion order: a sequence of items, keys distinct
Item(k, v) == [key |-> k, value |-> v]

\* the per-date dicts a symbol can have: at least one and at most MaxDates
\* of the date keys, in any order
DateLists ==
    LET m == IF MaxDates <= Len(DateKeys) THEN MaxDates ELSE Len(DateKeys)
    IN  { ds \in UNION { [1..l -> { DateKeys[i] : i \in 1..Len(DateKeys) }] :
                          l \in 1..m } :
            \A i, j \in 1..Len(ds) : i # j => ds[i] # ds[j] }

PerDate(s, ds) == [i \in 1..Len(ds) |-> Item(ds[i], MetricsOf(s, ds[i]))]

\* the tables metrics.json can hold: any set of symbols, two filings
\* calendars among them
Tables ==
    { [s \in D |-> PerDate(s, IF s \in {"TSLA.US", "AAPL.US"} THEN a ELSE b)] :
        D \in SUBSET Tickers, a \in DateLists, b \in DateLists }

\* the table of the recorded run
LoadedMetrics ==
    [s \in {"TSLA.US", "AAPL.US", "AMZN.US"} |-> PerDate(s, <<Q1_2025>>)]

\* json.dumps of a dict date -> {"current_ratio": number}, as tokens
RECURSIVE DumpItems(_)
DumpItems(items) ==
    IF items = <<>> THEN <<>>
    ELSE << Head(items).key, ":",
            "{", "current_ratio", ":", Head(items).value.current_ratio, "}" >>
         \o (IF Tail(items) = <<>> THEN <<>> ELSE <<",">>)
         \o DumpItems(Tail(items))

json_dumps(items) == <<"{">> \o DumpItems(items) \o <<"}">>

_symbol_is_valid_stored(table, sym) == sym \in DOMAIN table
_symbol_is_valid(table, sym) == InList(sym, SYMBOLS) /\ sym \in DOMAIN table

\* Python's max over the keys of a dict: the first key is the candidate, a
\* later key replaces it when it is greater
RECURSIVE MaxFrom(_, _)
MaxFrom(best, items) ==
    IF items = <<>> THEN best
    ELSE MaxFrom(IF StrLess(best, Head(items).key) THEN Head(items).key ELSE best,
                 Tail(items))

LastKey(items) == items[Len(items)].key
max(items) == MaxFrom(Head(items).key, Tail(items))

ValueAt(items, k) ==
    items[CHOOSE i \in 1..Len(items) : items[i].key = k].value

get_latest_metrics(table, sym) ==
    IF ~_symbol_is_valid(table, sym) THEN <<"{", "}">>
    ELSE LET latest_date == max(table[sym])
             latest_data == ValueAt(table[sym], latest_date)
         IN  json_dumps(<< Item(latest_date, latest_data) >>)

get_all_metrics(table, sym) ==
    IF ~_symbol_is_valid(table, sym) THEN <<"{", "}">>
    ELSE json_dumps(table[sym])

\* a tool call of the ExecutorWorker
CallLatest(sym) ==
    /\ symbol' = sym
    /\ scope' = "latest"
    /\ result' = get_latest_metrics(METRICS, sym)
    /\ UNCHANGED <<METRICS, schedVars, pipeVars>>

CallAll(sym) ==
    /\ symbol' = sym
    /\ scope' = "all"
    /\ result' = get_all_metrics(METRICS, sym)
    /\ UNCHANGED <<METRICS, schedVars, pipeVars>>

Init ==
    /\ \E t \in Teams :
        /\ participants = t.participants
        /\ termination = t.termination
    /\ messages = <<>>
    /\ message_count = 0
    /\ next_speaker = 0
    /\ pc = "idle"
    /\ stop_reason = {}
    /\ invoked = <<>>
    /\ active = {}
    /\ stage = "none"
    /\ question = <<>>
    /\ plan = <<>>
    /\ data = <<>>
    /\ fin_task = <<>>
    /\ started = <<>>
    /\ METRICS = LoadedMetrics
    /\ symbol = ""
    /\ scope = "none"
    /\ result = <<>>

Start == \E task \in Replies : run_stream(task) /\ UNCHANGED pipeVars
Step ==
    \E use_tool \in BOOLEAN, reply \in Replies :
        Turn(use_tool, reply) /\ UNCHANGED pipeVars

Next == Start \/ Step

Spec == Init /\ [][Next]_vars

(***************************************************************************)
(* Properties of the metrics tools.                                        *)
(***************************************************************************)
\* json.loads of a string json_dumps wrote: the mapping it denotes
json_loads(toks) ==
    LET n == (Len(toks) - 1) \div 8
        at(j) == 2 + 8 * (j - 1)
    IN  [k \in { toks[at(j)] : j \in 1..n } |->
            LET j == CHOOSE j \in 1..n : toks[at(j)] = k
            IN  [current_ratio |-> toks[at(j) + 5]]]

\* the mapping stored for a symbol
Stored(sym) ==
    LET items == METRICS[sym] IN
    [k \in { items[i].key : i \in 1..Len(items) } |->
        items[CHOOSE i \in 1..Len(items) : items[i].key = k].value]

Whitelisted(sym) == sym \in {"TSLA.US", "AMZN.US", "AAPL.US"}
Known(sym) == Whitelisted(sym) /\ sym \in DOMAIN METRICS

C6_UnknownIsEmpty ==
    (scope # "none" /\ ~Known(symbol)) =>
        /\ result = <<"{", "}">>
        /\ json_loads(result) = << >>

\* a symbol with stored metrics that is not in the whitelist
C6_Witness ==
    /\ scope = "all"
    /\ symbol = "MSFT.US"
    /\ symbol \in DOMAIN METRICS
    /\ result = <<"{", "}">>

InitMetrics ==
    /\ participants = executor_chat.participants
    /\ termination = executor_chat.termination
    /\ messages = <<>>
    /\ message_count = 0
    /\ next_speaker = 0
    /\ pc = "idle"
    /\ stop_reason = {}
    /\ invoked = <<>>
    /\ active = {}
    /\ stage = "none"
    /\ question = <<>>
    /\ plan = <<>>
    /\ data = <<>>
    /\ fin_task = <<>>
    /\ started = <<>>
    /\ METRICS \in Tables
    /\ symbol = ""
    /\ scope = "none"
    /\ result = <<>>

Latest == \E sym \in Tickers : CallLatest(sym)
All == \E sym \in Tickers : CallAll(sym)

NextMetrics == Latest \/ All

SpecMetrics == InitMetrics /\ [][NextMetrics]_vars

(***************************************************************************)
(* answer(q): Planner, then the executor team, then Financial.             *)
(***************************************************************************)
Planner == Agent("Planner", FALSE, FALSE)
Financial == Agent("Financial", FALSE, FALSE)

\* the questions a user asks
Questions ==
    { <<"T", "S", "L", "A", "?">>,
      <<"A", "P", "P", "R", "O", "V", "E", "?">> }

\* agent.run_stream(task=...): the messages of the result
AgentRun(a, task, reply) ==
    << Message("user", "TextMessage", task) >> \o AgentResponse(a, FALSE, reply)

Last(xs) == xs[Len(xs)]

\* [m for m in exec_res.messages
\*    if m.source=='ExecutorWorker' and m.type=='TextMessage']
IsWorkerText(m) == m.source = "ExecutorWorker" /\ m.type = "TextMessage"
WorkerTexts(ms) == SelectSeq(ms, IsWorkerText)

\* f'user_question:{q}\nrefined:{plan}\ndata_json:{data}'
FinancialTask(q, p, d) ==
    <<"u", "s", "e", "r", "_", "q", "u", "e", "s", "t", "i", "o", "n", ":">>
    \o q
    \o <<"\n", "r", "e", "f", "i", "n", "e", "d", ":">>
    \o p
    \o <<"\n", "d", "a", "t", "a", "_", "j", "s", "o", "n", ":">>
    \o d

\* plan_res = await Console(Planner.run_stream(task=q))
\* plan = plan_res.messages[-1].content
PlannerRun(reply) ==
    /\ stage = "start"
    /\ plan' = Last(AgentRun(Planner, question, reply)).content
    /\ started' = Append(started, "Planner")
    /\ stage' = "planned"
    /\ UNCHANGED <<question, data, fin_task, schedVars, toolVars>>

\* exec_res = await Console(executor_chat.run_stream(task=plan)): the start
ExecutorStart ==
    /\ stage = "planned"
    /\ run_stream(plan)
    /\ started' = Append(started, "executor_chat")
    /\ stage' = "executing"
    /\ UNCHANGED <<question, plan, data, fin_task>>

\* ... and the turns of the team until its run is done
ExecutorTurn(use_tool, reply) ==
    /\ stage = "executing"
    /\ Turn(use_tool, reply)
    /\ UNCHANGED pipeVars

\* data_msg = [...][-1]; data = data_msg.content.  Indexing the empty list
\* raises IndexError, which ends answer(q).
Extract ==
    /\ stage = "executing"
    /\ pc = "done"
    /\ IF WorkerTexts(messages) = <<>>
       THEN /\ stage' = "IndexError"
            /\ data' = data
       ELSE /\ stage' = "extracted"
            /\ data' = Last(WorkerTexts(messages)).content
    /\ UNCHANGED <<question, plan, fin_task, started, schedVars, toolVars>>

\* fin = await Console(Financial.run_stream(task=f'...'))
FinancialRun(reply) ==
    /\ stage = "extracted"
    /\ fin_task' = AgentRun(Financial,
                            FinancialTask(question, plan, data), reply)[1].content
    /\ started' = Append(started, "Financial")
    /\ stage' = "answered"
    /\ UNCHANGED <<question, plan, data, schedVars, toolVars>>

InitAnswer ==
    /\ participants = executor_chat.participants
    /\ termination = executor_chat.termination
    /\ messages = <<>>
    /\ message_count = 0
    /\ next_speaker = 0
    /\ pc = "idle"
    /\ stop_reason = {}
    /\ invoked = <<>>
    /\ active = {}
    /\ stage = "start"
    /\ question \in Questions
    /\ plan = <<>>
    /\ data = <<>>
    /\ fin_task = <<>>
    /\ started = <<>>
    /\ METRICS = LoadedMetrics
    /\ symbol = ""
    /\ scope = "none"
    /\ result = <<>>

Plan == \E reply \in Replies : PlannerRun(reply)
Execute ==
    \E use_tool \in BOOLEAN, reply \in Replies : ExecutorTurn(use_tool, reply)
Answer == \E reply \in Replies : FinancialRun(reply)

NextAnswer == Plan \/ ExecutorStart \/ Execute \/ Extract \/ Answer

SpecAnswer == InitAnswer /\ [][NextAnswer]_vars

\* C16 as stated: the three runs are started in the order Planner, executor
\* team, Financial, each once and each after the run before it has ended;
\* the team's seed is the Planner's last message; and whichever way the
\* team's run ends, its transcript holds a TextMessage from ExecutorWorker,
\* the last of which is contained in the task handed to Financial.
C16_WorkerTextExists ==
    /\ IsPrefix(started, <<"Planner", "executor_chat", "Financial">>)
    /\ Len(started) >= 2 =>
        /\ stage # "start"
        /\ messages[1] = Message("user", "TextMessage", plan)
    /\ Len(started) = 3 => pc = "done"
    /\ (stage = "executing" /\ pc = "done") => WorkerTexts(messages) # <<>>
    /\ stage # "IndexError"
    /\ stage = "answered" =>
        /\ data = Last(WorkerTexts(messages)).content
        /\ TextIn(data, fin_task)

====
